---------------------------- MODULE Spec2Model ----------------------------
(***************************************************************************)
(* The JSON -> Excel reconciliation engine of finalApplication.py (tab 2,  *)
(* "Fill Excel Template from JSON").                                       *)
(*                                                                         *)
(* Python strings are modelled as sequences of one-character strings, so   *)
(* that normalisation, regular-expression matching and key concatenation   *)
(* are computed character by character as the code computes them.  None is *)
(* a value distinct from every string.                                     *)
(***************************************************************************)
EXTENDS Integers, Sequences, FiniteSets, TLC

VARIABLES
    label, once, twice, cpc,            \* canonical_section applied to a label, twice
    merged_json, flat,                  \* the extraction document and its FlatIndex
    q_sec, q_field, picked, fpc,        \* one pick_value lookup
    excel_file, ws, secmap, colmap,     \* uploaded workbook, active sheet, column identities
    new_row, filled, out_xlsx, outcome

vars == <<label, once, twice, cpc, merged_json, flat, q_sec, q_field, picked, fpc,
          excel_file, ws, secmap, colmap, new_row, filled, out_xlsx, outcome>>

canonVars == <<label, once, twice, cpc>>
pickVars == <<q_sec, q_field, picked, fpc>>
fillVars == <<excel_file, ws, secmap, colmap, new_row, filled, out_xlsx, outcome>>

-----------------------------------------------------------------------------
(* Python values and string primitives *)

None == <<"<None>">>

EMPTY == <<>>

WS == {" ", "\t", "\n"}

DIGITS == {"0", "1", "2", "3", "4", "5", "6", "7", "8", "9"}

LOWER == <<"a","b","c","d","e","f","g","h","i","j","k","l","m","n","o","p","q","r","s","t","u","v","w","x","y","z">>

UPPER == <<"A","B","C","D","E","F","G","H","I","J","K","L","M","N","O","P","Q","R","S","T","U","V","W","X","Y","Z">>

RECURSIVE PairUp(_)
PairUp(i) == IF i > Len(LOWER) THEN <<>> ELSE (LOWER[i] :> UPPER[i]) @@ PairUp(i + 1)

\* the upper-case form of each lower-case letter
ToUpper == PairUp(1)

SetMin(S) == CHOOSE x \in S : \A y \in S : x <= y

SetMax(S) == CHOOSE x \in S : \A y \in S : x >= y

\* bool(s) of a string or None
Truthy(s) == s # None /\ s # EMPTY

\* str.upper() on one character
UpperChar(c) == IF c \in DOMAIN ToUpper THEN ToUpper[c] ELSE c

upper(s) == [i \in 1..Len(s) |-> UpperChar(s[i])]

\* s.replace("\n", " ")
ReplaceNewline(s) == [i \in 1..Len(s) |-> IF s[i] = "\n" THEN " " ELSE s[i]]

RECURSIVE RunEnd(_, _, _)
\* the first index at or after i whose character is not in C (Len(s) + 1 when none)
RunEnd(s, i, C) ==
    IF i > Len(s) THEN i ELSE IF s[i] \in C THEN RunEnd(s, i + 1, C) ELSE i

RECURSIVE RunStart(_, _, _)
\* the last index at or before i whose character is not in C (0 when none)
RunStart(s, i, C) ==
    IF i < 1 THEN i ELSE IF s[i] \in C THEN RunStart(s, i - 1, C) ELSE i

RECURSIVE WordEnd(_, _)
\* the first index at or after i that holds whitespace (Len(s) + 1 when none)
WordEnd(s, i) ==
    IF i > Len(s) THEN i ELSE IF s[i] \in WS THEN i ELSE WordEnd(s, i + 1)

\* s.strip()
strip(s) == SubSeq(s, RunEnd(s, 1, WS), RunStart(s, Len(s), WS))

RECURSIVE ReplaceHashSpaceFrom(_, _)
ReplaceHashSpaceFrom(s, i) ==
    IF i > Len(s) THEN EMPTY
    ELSE IF s[i] = "#" /\ i < Len(s) /\ s[i + 1] = " "
         THEN <<"#">> \o ReplaceHashSpaceFrom(s, i + 2)
         ELSE <<s[i]>> \o ReplaceHashSpaceFrom(s, i + 1)

\* s.replace("# ", "#"): one left-to-right pass over non-overlapping occurrences
ReplaceHashSpace(s) == ReplaceHashSpaceFrom(s, 1)

RECURSIVE SplitFrom(_, _)
RECURSIVE WordsFrom(_, _)
SplitFrom(s, i) == WordsFrom(s, RunEnd(s, i, WS))

\* the words of s from index b on, b holding no whitespace
WordsFrom(s, b) ==
    IF b > Len(s) THEN <<>>
    ELSE <<SubSeq(s, b, WordEnd(s, b) - 1)>> \o SplitFrom(s, WordEnd(s, b))

\* s.split(): the words between runs of whitespace
split(s) == SplitFrom(s, 1)

RECURSIVE JoinFrom(_, _)
JoinFrom(words, i) ==
    IF i > Len(words) THEN EMPTY
    ELSE IF i = 1 THEN words[1] \o JoinFrom(words, 2)
         ELSE <<" ">> \o words[i] \o JoinFrom(words, i + 1)

\* " ".join(words)
join(words) == JoinFrom(words, 1)

\* pat occurs in s at index i
MatchAt(s, pat, i) ==
    /\ i + Len(pat) - 1 <= Len(s)
    /\ \A j \in 1..Len(pat) : s[i + j - 1] = pat[j]

startswith(s, pat) == MatchAt(s, pat, 1)

\* pat in s
Contains(s, pat) == \E i \in 1..(Len(s) - Len(pat) + 1) : MatchAt(s, pat, i)

-----------------------------------------------------------------------------
(* Normalizer *)

ROW_SECTION == 2

ROW_FIELDS == 3

FIRST_DATA_ROW == 4

norm(s) ==
    IF Truthy(s)
    THEN upper(join(split(ReplaceHashSpace(strip(ReplaceNewline(s))))))
    ELSE EMPTY

FIELD_SYNONYMS ==
    ( <<"B","D","R","M","S">> :> <<"B","E","D","R","O","O","M","S">> ) @@
    ( <<"B","A","T","H","(","S",")">> :> <<"B","A","T","H","S">> ) @@
    ( <<"Q","U","A","L","I","T","Y">> :> <<"Q","U","A","L","I","T","Y"," ","O","F"," ","C","O","N","S","T","R","U","C","T","I","O","N">> ) @@
    ( <<"Q","U","A","L","I","T","Y"," ","O","F"," ","C","O","N","S","T">> :> <<"Q","U","A","L","I","T","Y"," ","O","F"," ","C","O","N","S","T","R","U","C","T","I","O","N">> ) @@
    ( <<"P","R","O","P","E","R","T","Y"," ","A","D","D","R","E","S","S">> :> <<"P","R","O","P","E","R","T","Y"," ","A","D","D","R","E","S","S">> ) @@
    ( <<"A","D","D","R","E","S","S">> :> <<"A","D","D","R","E","S","S">> ) @@
    ( <<"L","O","T"," ","S","I","Z","E">> :> <<"S","I","T","E">> ) @@
    ( <<"A","R","E","A">> :> <<"S","I","T","E">> )

FIELD_ONLY_SET ==
    { <<"O","P","I","N","I","O","N"," ","O","F"," ","S","I","T","E"," ","V","A","L","U","E">>, <<"T","O","T","A","L"," ","E","S","T","I","M","A","T","E"," ","O","F"," ","C","O","S","T","-","N","E","W">>, <<"D","E","P","R","E","C","I","A","T","I","O","N">>,
      <<"R",".","E","."," ","T","A","X"," ","Y","E","A","R">>, <<"H","O","A"," ","F","R","E","Q","U","E","N","C","Y">>, <<"P","O","O","L">> }

SALES_HISTORY_COMP_FIELDS ==
    { <<"D","A","T","E"," ","O","F"," ","P","R","I","O","R"," ","S","A","L","E","/","T","R","A","N","S","F","E","R">>, <<"P","R","I","C","E"," ","O","F"," ","P","R","I","O","R"," ","S","A","L","E","/","T","R","A","N","S","F","E","R">>,
      <<"D","A","T","A"," ","S","O","U","R","C","E","(","S",")">>, <<"E","F","F","E","C","T","I","V","E"," ","D","A","T","E"," ","O","F"," ","D","A","T","A"," ","S","O","U","R","C","E","(","S",")">> }

\* FIELD_SYNONYMS.get(s, s)
Synonym(n) == IF n \in DOMAIN FIELD_SYNONYMS THEN FIELD_SYNONYMS[n] ELSE n

canonical_field(s) == Synonym(norm(s))

COMPARABLE_SALE == <<"C","O","M","P","A","R","A","B","L","E"," ","S","A","L","E"," ","#">>

\* the digits of s in d..e-1, or None when the run is empty
DigitsAt(s, d, e) == IF e > d THEN SubSeq(s, d, e - 1) ELSE None

\* (\d+) matched at index d: the run of digits that starts there, or None
Group1(s, d) == DigitsAt(s, d, RunEnd(s, d, DIGITS))

\* re.match(r"COMPARA?BE\s*(\d+)", s): the digits of group 1, or None
MatchComparabe(s) ==
    IF startswith(s, <<"C","O","M","P","A","R","A","B","E">>) THEN Group1(s, RunEnd(s, 10, WS))
    ELSE IF startswith(s, <<"C","O","M","P","A","R","B","E">>) THEN Group1(s, RunEnd(s, 9, WS))
    ELSE None

RECURSIVE SubComparableFrom(_, _)
SubComparableFrom(s, i) ==
    IF i > Len(s) THEN EMPTY
    ELSE IF /\ MatchAt(s, COMPARABLE_SALE, i)
            /\ Group1(s, RunEnd(s, i + Len(COMPARABLE_SALE), WS)) # None
         THEN COMPARABLE_SALE
              \o Group1(s, RunEnd(s, i + Len(COMPARABLE_SALE), WS))
              \o SubComparableFrom(s, RunEnd(s, RunEnd(s, i + Len(COMPARABLE_SALE), WS), DIGITS))
         ELSE <<s[i]>> \o SubComparableFrom(s, i + 1)

\* re.sub(r"COMPARABLE SALE #\s*(\d+)", r"COMPARABLE SALE #\1", s)
SubComparable(s) == SubComparableFrom(s, 1)

\* the rule cascade of canonical_section on the normalised label n
SectionRules(n) ==
    IF MatchComparabe(n) # None THEN COMPARABLE_SALE \o MatchComparabe(n)
    ELSE IF startswith(n, COMPARABLE_SALE) THEN SubComparable(n)
    ELSE IF Contains(n, <<"O","N","E","-","U","N","I","T"," ","H","O","U","S","I","N","G"," ","T","R","E","N","D","S">>) THEN <<"O","N","E","_","U","N","I","T","_","H","O","U","S","I","N","G","_","T","R","E","N","D","S">>
    ELSE IF Contains(n, <<"O","N","E","-","U","N","I","T"," ","H","O","U","S","I","N","G">>) THEN <<"O","N","E","_","U","N","I","T","_","H","O","U","S","I","N","G">>
    ELSE IF Contains(n, <<"R","E","C","O","N","C","I","L","I","A","T","I","O","N">>) THEN <<"R","E","C","O","N","C","I","L","I","A","T","I","O","N">>
    ELSE IF Contains(n, <<"C","O","S","T"," ","A","P","P","R","O","A","C","H">>) THEN <<"C","O","S","T","_","A","P","P","R","O","A","C","H">>
    ELSE IF Contains(n, <<"S","A","L","E","S">>) /\ Contains(n, <<"H","I","S","T","O","R","Y">>) THEN <<"S","A","L","E","S","_","H","I","S","T","O","R","Y">>
    ELSE IF n = <<"S","U","B","J","E","C","T">> THEN <<"S","U","B","J","E","C","T">>
    ELSE n

canonical_section(s) == SectionRules(norm(s))

-----------------------------------------------------------------------------
(* Flattener and Value Resolver *)

\* A JSON value: a dict (its items in insertion order, keys distinct) or a leaf.
Dict(items) == [t |-> "dict", items |-> items]

Leaf(v) == [t |-> "leaf", v |-> v]

\* str(obj) of a leaf: a string is itself, JSON null prints as "None"
str(v) == IF v = None THEN <<"N","o","n","e">> ELSE v

NoFlat == [k \in {} |-> EMPTY]

\* flat[k] = v
SetItem(d, k, v) == (k :> v) @@ d

\* flat.get(k, "")
Get(d, k) == IF k \in DOMAIN d THEN d[k] ELSE EMPTY

\* f"{section}.{field}"
CompositeKey(section, field) == section \o <<".">> \o field

RECURSIVE SectionOf(_, _), SectionOr(_, _, _)
\* the loop over reversed(raw_sections): the deepest segment with a non-empty canonical section
SectionOf(raw_sections, i) ==
    IF i < 1 THEN EMPTY ELSE SectionOr(canonical_section(raw_sections[i]), raw_sections, i)

\* if sec: section_c = sec; break
SectionOr(sec, raw_sections, i) == IF Truthy(sec) THEN sec ELSE SectionOf(raw_sections, i - 1)

LeafSection(path) == SectionOf(SubSeq(path, 1, Len(path) - 1), Len(path) - 1)

LeafField(path) == canonical_field(path[Len(path)])

\* StoreComposite without the test of section_c: a leaf of no section is stored
StoreComposite_any_section(fl, section_c, field_c, val) ==
    IF Truthy(field_c) THEN SetItem(fl, CompositeKey(section_c, field_c), val) ELSE fl

\* if section_c and field_c: flat[f"{section_c}.{field_c}"] = val
StoreComposite(fl, section_c, field_c, val) ==
    IF Truthy(section_c) /\ Truthy(field_c)
    THEN SetItem(fl, CompositeKey(section_c, field_c), val)
    ELSE fl

\* if field_c in FIELD_ONLY_SET: flat[field_c] = val
StoreFieldOnly(fl, field_c, val) ==
    IF field_c \in FIELD_ONLY_SET THEN SetItem(fl, field_c, val) ELSE fl

\* the two stores of the else branch of walk
Store(fl, section_c, field_c, val) ==
    StoreFieldOnly(StoreComposite(fl, section_c, field_c, val), field_c, val)

\* the else branch of walk: the leaf at `path` stored in flat
StoreLeaf(fl, path, v) == Store(fl, LeafSection(path), LeafField(path), str(v))

RECURSIVE walk(_, _, _), walkItems(_, _, _, _)
walk(fl, path, obj) ==
    IF obj.t = "dict" THEN walkItems(fl, path, obj.items, 1)
    ELSE StoreLeaf(fl, path, obj.v)

walkItems(fl, path, items, i) ==
    IF i > Len(items) THEN fl
    ELSE walkItems(walk(fl, Append(path, items[i][1]), items[i][2]), path, items, i + 1)

\* walk([], merged) on a non-dict root reads path[-1] of the empty path: IndexError
FlattenRaises(merged) == merged.t # "dict"

flatten_json(merged) == walk(NoFlat, <<>>, merged)

\* pick_value with the SUBJECT lookup under the key "Subject.<field>"
pick_value_subject_key(section, field, fl) ==
    IF field \in FIELD_ONLY_SET THEN Get(fl, field)
    ELSE IF startswith(section, COMPARABLE_SALE) THEN Get(fl, CompositeKey(section, field))
    ELSE IF section = <<"S","U","B","J","E","C","T">> THEN Get(fl, CompositeKey(<<"S","u","b","j","e","c","t">>, field))
    ELSE IF section = <<"S","A","L","E","S","_","H","I","S","T","O","R","Y","_","S","U","B","J","E","C","T">>
         THEN Get(fl, CompositeKey(<<"S","A","L","E","S","_","H","I","S","T","O","R","Y",".","S","u","b","j","e","c","t">>, field))
    ELSE Get(fl, CompositeKey(section, field))

pick_value(section, field, fl) ==
    IF field \in FIELD_ONLY_SET THEN Get(fl, field)
    ELSE IF field \in SALES_HISTORY_COMP_FIELDS /\ startswith(section, COMPARABLE_SALE)
         THEN Get(fl, CompositeKey(section, field))
    ELSE IF startswith(section, COMPARABLE_SALE) THEN Get(fl, CompositeKey(section, field))
    ELSE IF section = <<"S","U","B","J","E","C","T">> THEN Get(fl, CompositeKey(<<"S","U","B","J","E","C","T">>, field))
    ELSE IF section = <<"S","A","L","E","S","_","H","I","S","T","O","R","Y","_","S","U","B","J","E","C","T">>
         THEN Get(fl, CompositeKey(<<"S","A","L","E","S","_","H","I","S","T","O","R","Y",".","S","u","b","j","e","c","t">>, field))
    ELSE Get(fl, CompositeKey(section, field))

RECURSIVE LeavesOf(_, _), LeavesOfItems(_, _, _)
\* the leaves of a document in the order walk visits them, each with its path
LeavesOf(path, obj) ==
    IF obj.t = "dict" THEN LeavesOfItems(path, obj.items, 1)
    ELSE <<[path |-> path, v |-> obj.v]>>

LeavesOfItems(path, items, i) ==
    IF i > Len(items) THEN <<>>
    ELSE LeavesOf(Append(path, items[i][1]), items[i][2]) \o LeavesOfItems(path, items, i + 1)

Leaves(doc) == IF doc.t = "dict" THEN LeavesOf(<<>>, doc) ELSE <<>>

-----------------------------------------------------------------------------
(* Worksheet, Column Detector and Writer *)

\* A worksheet is the map of its cells, (row, column) -> value; a cell that was never
\* created is absent.  ws.max_row and ws.max_column are 1 on a sheet with no cells.
NoSheet == [k \in {} |-> None]

max_row(sheet) == IF DOMAIN sheet = {} THEN 1 ELSE SetMax({rc[1] : rc \in DOMAIN sheet})

max_column(sheet) == IF DOMAIN sheet = {} THEN 1 ELSE SetMax({rc[2] : rc \in DOMAIN sheet})

\* ws.cell(row, column).value
Value(sheet, r, c) == IF <<r, c>> \in DOMAIN sheet THEN sheet[<<r, c>>] ELSE None

\* ws.cell(row, column) creates the cell when the sheet does not hold it yet
Touch(sheet, r, c) == IF <<r, c>> \in DOMAIN sheet THEN sheet ELSE (<<r, c>> :> None) @@ sheet

\* ws.cell(row, column).value = v
SetValue(sheet, r, c, v) == (<<r, c>> :> v) @@ sheet

\* load_workbook(path).active
load_workbook(file) == file

\* wb.save(path): a cell without a value is written only when it came with the template
save(sheet, file) ==
    LET kept == {rc \in DOMAIN sheet : sheet[rc] # None \/ rc \in DOMAIN file}
    IN  [rc \in kept |-> sheet[rc]]

\* if sec: last = sec
Running(sec, last) == IF Truthy(sec) THEN sec ELSE last

RECURSIVE RawSections(_, _, _, _), RawFrom(_, _, _, _)
\* the first loop of detect_sections: the running section of columns col..max_col
RawSections(sheet, col, max_col, last) ==
    IF col > max_col THEN <<>>
    ELSE RawFrom(sheet, col, max_col, Running(canonical_section(Value(sheet, ROW_SECTION, col)), last))

\* raw.append(last) and the columns after col
RawFrom(sheet, col, max_col, now) == <<now>> \o RawSections(sheet, col + 1, max_col, now)

\* next((i for i, x in enumerate(raw, 1) if x == "COMPARABLE SALE #1"), None); 0 for None
Comp1Start(raw) ==
    LET hits == {i \in 1..Len(raw) : raw[i] = <<"C","O","M","P","A","R","A","B","L","E"," ","S","A","L","E"," ","#","1">>}
    IN  IF hits = {} THEN 0 ELSE SetMin(hits)

\* FinalSection with the field test ahead of the position test
FinalSection_field_first(sec, field, comp1_start, col) ==
    IF ~Truthy(sec)
    THEN IF field \in SALES_HISTORY_COMP_FIELDS THEN <<"S","A","L","E","S","_","H","I","S","T","O","R","Y","_","S","U","B","J","E","C","T">>
         ELSE IF comp1_start # 0 /\ col < comp1_start THEN <<"S","U","B","J","E","C","T">>
         ELSE sec
    ELSE sec

\* the body of the second loop of detect_sections: final[col]
FinalSection(sec, field, comp1_start, col) ==
    IF ~Truthy(sec)
    THEN IF comp1_start # 0 /\ col < comp1_start THEN <<"S","U","B","J","E","C","T">>
         ELSE IF field \in SALES_HISTORY_COMP_FIELDS THEN <<"S","A","L","E","S","_","H","I","S","T","O","R","Y","_","S","U","B","J","E","C","T">>
         ELSE sec
    ELSE sec

Final(sheet, raw, comp1_start) ==
    [col \in 1..Len(raw) |->
        FinalSection(raw[col], canonical_field(Value(sheet, ROW_FIELDS, col)), comp1_start, col)]

FinalOf(sheet, raw) == Final(sheet, raw, Comp1Start(raw))

detect_sections(sheet) == FinalOf(sheet, RawSections(sheet, 1, max_column(sheet), EMPTY))

RECURSIVE TouchHeaders(_, _, _)
\* the cells detect_sections reads in the two header rows
TouchHeaders(sheet, col, max_col) ==
    IF col > max_col THEN sheet
    ELSE TouchHeaders(Touch(Touch(sheet, ROW_SECTION, col), ROW_FIELDS, col), col + 1, max_col)

HasIdentity(cm, sec, field) == \E i \in 1..Len(cm) : cm[i].sec = sec /\ cm[i].field = field

\* SetDefault as colmap[(sec, field)] = col: the last column of an identity wins
SetDefault_last_wins(cm, sec, field, col) ==
    IF Truthy(sec) /\ Truthy(field)
    THEN IF \E i \in 1..Len(cm) : cm[i].sec = sec /\ cm[i].field = field
         THEN [i \in 1..Len(cm) |->
                  IF cm[i].sec = sec /\ cm[i].field = field
                  THEN [cm[i] EXCEPT !.col = col] ELSE cm[i]]
         ELSE Append(cm, [sec |-> sec, field |-> field, col |-> col])
    ELSE cm

\* if sec and field: colmap.setdefault((sec, field), col)
SetDefault(cm, sec, field, col) ==
    IF Truthy(sec) /\ Truthy(field) /\ ~HasIdentity(cm, sec, field)
    THEN Append(cm, [sec |-> sec, field |-> field, col |-> col])
    ELSE cm

RECURSIVE BuildColmap(_, _, _, _)
\* colmap.setdefault((sec, field), col) over the columns in index order
BuildColmap(sheet, sm, col, cm) ==
    IF col > max_column(sheet) THEN cm
    ELSE BuildColmap(sheet, sm, col + 1,
                     SetDefault(cm, sm[col], canonical_field(Value(sheet, ROW_FIELDS, col)), col))

Max(a, b) == IF a >= b THEN a ELSE b

\* NewRow without the + 1: the last row of the sheet is the target
NewRow_last_row(sheet) == Max(max_row(sheet), FIRST_DATA_ROW)

\* NewRow without ws.max_row: the first data row is always the target
NewRow_first_data_row(sheet) == FIRST_DATA_ROW

NewRow(sheet) == Max(max_row(sheet) + 1, FIRST_DATA_ROW)

\* current not in (None, "", " ")
Occupied(current) == current \notin {None, EMPTY, <<" ">>}

\* the body of the fill loop for one colmap entry, val its resolved value
FillCell(st, row, col, val) ==
    IF Occupied(Value(st.sheet, row, col)) THEN st
    ELSE IF Truthy(val)
         THEN [sheet |-> SetValue(st.sheet, row, col, val), filled |-> st.filled + 1]
         ELSE [st EXCEPT !.sheet = Touch(st.sheet, row, col)]

RECURSIVE FillLoop(_, _, _, _, _)
\* the fill loop over colmap.items(): the sheet and the count after entries i..
FillLoop(st, cm, row, fl, i) ==
    IF i > Len(cm) THEN st
    ELSE FillLoop(FillCell(st, row, cm[i].col, pick_value(cm[i].sec, cm[i].field, fl)),
                  cm, row, fl, i + 1)

\* clean_json_output on text that holds no JSON object
clean_json_output(raw_text) ==
    Dict(<< <<<<"e","r","r","o","r">>, Leaf(<<"I","n","v","a","l","i","d"," ","J","S","O","N"," ","r","e","t","u","r","n","e","d"," ","f","r","o","m"," ","m","o","d","e","l">>)>>,
            <<<<"r","a","w","_","o","u","t","p","u","t">>, Leaf(raw_text)>> >>)

-----------------------------------------------------------------------------
(* canonical_section applied to a label and again to its own result *)

MaxFrags == 3

Frags ==
    { <<"a">>, <<"#">>, <<" ">>, <<"\t">>, <<"\n">>, <<"1">>, <<"c","o","m","p","a","r","b","e">>,
      <<"C","o","m","p","a","r","a","b","l","e"," ","S","a","l","e"," ","#">>, <<"S","a","l","e","s"," ","H","i","s","t","o","r","y">>, <<"S","u","b","j","e","c","t">> }

RECURSIVE Concat(_)
Concat(ss) == IF ss = <<>> THEN EMPTY ELSE Head(ss) \o Concat(Tail(ss))

Labels == {Concat(fs) : fs \in UNION {[1..n -> Frags] : n \in 0..MaxFrags}}

NoDoc == Dict(<<>>)

IdleFill ==
    /\ excel_file = NoSheet /\ ws = NoSheet /\ secmap = <<>> /\ colmap = <<>>
    /\ new_row = 0 /\ filled = 0 /\ out_xlsx = NoSheet /\ outcome = "none"

IdlePick == q_sec = EMPTY /\ q_field = EMPTY /\ picked = EMPTY /\ fpc = "idle"

IdleCanon == label = None /\ once = None /\ twice = None /\ cpc = "idle"

InitCanon ==
    /\ label \in Labels \cup {None}
    /\ once = None /\ twice = None /\ cpc = "label"
    /\ merged_json = NoDoc /\ flat = NoFlat
    /\ IdlePick /\ IdleFill

CanonOnce ==
    /\ cpc = "label"
    /\ once' = canonical_section(label)
    /\ cpc' = "once"
    /\ UNCHANGED <<label, twice, merged_json, flat, pickVars, fillVars>>

CanonTwice ==
    /\ cpc = "once"
    /\ twice' = canonical_section(once)
    /\ cpc' = "twice"
    /\ UNCHANGED <<label, once, merged_json, flat, pickVars, fillVars>>

NextCanon == CanonOnce \/ CanonTwice

SpecCanon == InitCanon /\ [][NextCanon]_vars

\* C5: canonical_section is idempotent: applying it to its own result changes nothing.
C5_Idempotent == cpc = "twice" => twice = once

-----------------------------------------------------------------------------
(* flatten_json and pick_value over bounded extraction documents *)

MaxSections == 2

SecKeys == { <<"S","U","B","J","E","C","T">>, <<"S","A","L","E","S","_","H","I","S","T","O","R","Y">>, <<"C","O","S","T","_","A","P","P","R","O","A","C","H">> }

SubKeys == { <<"S","u","b","j","e","c","t">>, <<"C","o","m","p","a","r","a","b","l","e"," ","S","a","l","e"," ","#","1">> }

FieldKeys == { <<"P","o","o","l">>, <<"B","d","r","m","s">>, <<"D","a","t","e"," ","o","f"," ","P","r","i","o","r"," ","S","a","l","e","/","T","r","a","n","s","f","e","r">> }

LeafValues == { <<"Y","e","s">>, <<"N","o">> }

LeafEntries == {<<k, Leaf(v)>> : k \in FieldKeys, v \in LeafValues}

\* a section body: empty, one field, or one nested block holding one field
Bodies ==
    {Dict(<<>>)} \cup {Dict(<<e>>) : e \in LeafEntries}
    \cup {Dict(<<<<sk, Dict(<<e>>)>>>>) : sk \in SubKeys, e \in LeafEntries}

DistinctKeys(items) == \A i, j \in 1..Len(items) : i # j => items[i][1] # items[j][1]

Docs ==
    {Dict(items) : items \in
        {it \in UNION {[1..n -> SecKeys \X Bodies] : n \in 0..MaxSections} : DistinctKeys(it)}}

InitFlat ==
    /\ merged_json \in Docs
    /\ flat = NoFlat
    /\ q_sec = EMPTY /\ q_field = EMPTY /\ picked = EMPTY /\ fpc = "doc"
    /\ IdleCanon /\ IdleFill

Flatten ==
    /\ fpc = "doc"
    /\ ~FlattenRaises(merged_json)
    /\ flat' = flatten_json(merged_json)
    /\ fpc' = "flat"
    /\ UNCHANGED <<merged_json, q_sec, q_field, picked, canonVars, fillVars>>

\* the lookups tried: the (section, field) of each leaf, and each leaf's field under the
\* synthetic section of the unlabelled sales-history columns
Queries(doc) ==
    {<<LeafSection(Leaves(doc)[i].path), LeafField(Leaves(doc)[i].path)>> :
        i \in 1..Len(Leaves(doc))}
    \cup {<< <<"S","A","L","E","S","_","H","I","S","T","O","R","Y","_","S","U","B","J","E","C","T">>, LeafField(Leaves(doc)[i].path)>> :
        i \in 1..Len(Leaves(doc))}

PickValue ==
    /\ fpc = "flat"
    /\ \E q \in Queries(merged_json) :
          /\ q_sec' = q[1]
          /\ q_field' = q[2]
          /\ picked' = pick_value(q[1], q[2], flat)
    /\ fpc' = "picked"
    /\ UNCHANGED <<merged_json, flat, canonVars, fillVars>>

NextFlat == Flatten \/ PickValue

SpecFlat == InitFlat /\ [][NextFlat]_vars

\* the FlatIndex keys the leaf at `path` is stored under
KeysFor(section_c, field_c) ==
    (IF Truthy(section_c) /\ Truthy(field_c) THEN {CompositeKey(section_c, field_c)} ELSE {})
    \cup (IF field_c \in FIELD_ONLY_SET THEN {field_c} ELSE {})

KeysOf(path) == KeysFor(LeafSection(path), LeafField(path))

\* the key the resolver consults for a stored (section, field)
LookupKey(section, field) ==
    IF field \in FIELD_ONLY_SET THEN field ELSE CompositeKey(section, field)

\* leaf i of the document is a string stored under the (section, field) that was looked up
PickedLeaf(i) ==
    LET l == Leaves(merged_json)[i]
    IN  /\ l.v # None
        /\ Truthy(q_sec) /\ Truthy(q_field)
        /\ LeafSection(l.path) = q_sec
        /\ LeafField(l.path) = q_field

\* C2 (as claimed): every string leaf stored under (S, F) is returned unchanged by
\* pick_value(S, F, flatten_json(doc)), whatever else the document holds.
C2_RoundTrip ==
    fpc = "picked" =>
        \A i \in 1..Len(Leaves(merged_json)) :
            PickedLeaf(i) => picked = Leaves(merged_json)[i].v

\* no other leaf writes a different value under the key the resolver consults for leaf i
SoleValue(i) ==
    LET ls == Leaves(merged_json)
    IN  \A j \in 1..Len(ls) :
            LookupKey(q_sec, q_field) \in KeysOf(ls[j].path) => str(ls[j].v) = ls[i].v

\* C2 (amended): a string leaf stored under (S, F) is returned unchanged by
\* pick_value(S, F, flatten_json(doc)) provided no other leaf of the document writes a
\* different value under the FlatIndex key the resolver consults for (S, F): F alone
\* when F is a field-only field, "S.F" otherwise.
C2_RoundTripSoleValue ==
    fpc = "picked" =>
        \A i \in 1..Len(Leaves(merged_json)) :
            (PickedLeaf(i) /\ SoleValue(i)) => picked = Leaves(merged_json)[i].v

\* a field-only field stored under two sections with one value, looked up and returned
C2_Witness ==
    /\ fpc = "picked"
    /\ q_field \in FIELD_ONLY_SET
    /\ Len(Leaves(merged_json)) = 2
    /\ \A i \in 1..2 : PickedLeaf(i) <=> i = 1
    /\ LeafField(Leaves(merged_json)[2].path) = q_field
    /\ SoleValue(1)
    /\ picked = Leaves(merged_json)[1].v

\* C4: a value held at SALES_HISTORY -> Subject -> f, f a sales-history field, is what
\* pick_value("SALES_HISTORY_SUBJECT", canonical_field(f), flat) returns.
C4_Bridge ==
    (fpc = "picked" /\ q_sec = <<"S","A","L","E","S","_","H","I","S","T","O","R","Y","_","S","U","B","J","E","C","T">>) =>
        \A i \in 1..Len(Leaves(merged_json)) :
            LET l == Leaves(merged_json)[i]
            IN  ( /\ Len(l.path) = 3
                  /\ l.path[1] = <<"S","A","L","E","S","_","H","I","S","T","O","R","Y">>
                  /\ l.path[2] = <<"S","u","b","j","e","c","t">>
                  /\ canonical_field(l.path[3]) \in SALES_HISTORY_COMP_FIELDS
                  /\ canonical_field(l.path[3]) = q_field
                  /\ l.v # None )
                => picked = l.v

\* C10: every FlatIndex key holds the value of the first leaf, in traversal order, that
\* is stored under it.
C10_FirstWins ==
    fpc # "doc" =>
        \A k \in DOMAIN flat :
            LET ls == Leaves(merged_json)
                first == SetMin({i \in 1..Len(ls) : k \in KeysOf(ls[i].path)})
            IN  flat[k] = str(ls[first].v)

-----------------------------------------------------------------------------
(* The "Fill Excel" button: one fill run per click *)

MaxCols == 2

MaxDataRows == 1

MaxRow == 6

Absent == <<"<absent>">>

\* the section-row and field-row cells of one column
ColHeads ==
    { <<None, None>>,
      <<None, <<"P","o","o","l">>>>,
      <<None, <<"D","a","t","e"," ","o","f"," ","P","r","i","o","r"," ","S","a","l","e","/","T","r","a","n","s","f","e","r">>>>,
      <<<<" ">>, <<"B","d","r","m","s">>>>,
      <<<<"S","u","b","j","e","c","t">>, <<"P","o","o","l">>>>,
      <<<<"S","u","b","j","e","c","t">>, <<"B","e","d","r","o","o","m","s">>>>,
      <<<<"C","o","m","p","a","r","a","b","l","e"," ","S","a","l","e"," ","#","1">>, <<"B","d","r","m","s">>>>,
      <<<<"c","o","m","p","a","r","b","e"," ","1">>, <<"D","a","t","e"," ","o","f"," ","P","r","i","o","r","\n","S","a","l","e","/","T","r","a","n","s","f","e","r">>>> }

\* what column 1 of a data row holds: no cell, a formatted blank cell, a placeholder, a value
DataCells == {Absent, None, <<" ">>, <<"o","l","d">>}

TemplateOf(heads, data) ==
    LET coords == {<<ROW_SECTION, c>> : c \in {x \in 1..Len(heads) : heads[x][1] # None}}
                  \cup {<<ROW_FIELDS, c>> : c \in {x \in 1..Len(heads) : heads[x][2] # None}}
                  \cup {<<FIRST_DATA_ROW + r - 1, 1>> : r \in {x \in 1..Len(data) : data[x] # Absent}}
    IN  [rc \in coords |->
            IF rc[1] = ROW_SECTION THEN heads[rc[2]][1]
            ELSE IF rc[1] = ROW_FIELDS THEN heads[rc[2]][2]
            ELSE data[rc[1] - FIRST_DATA_ROW + 1]]

Templates ==
    {TemplateOf(h, d) :
        h \in UNION {[1..n -> ColHeads] : n \in 0..MaxCols},
        d \in [1..MaxDataRows -> DataCells]}

SubjectDoc ==
    Dict(<< <<<<"S","U","B","J","E","C","T">>, Dict(<< <<<<"P","o","o","l">>, Leaf(<<"Y","e","s">>)>>, <<<<"B","d","r","m","s">>, Leaf(<<"3">>)>> >>)>>,
            <<<<"S","A","L","E","S","_","C","O","M","P","A","R","I","S","O","N","_","A","P","P","R","O","A","C","H">>,
              Dict(<< <<<<"C","o","m","p","a","r","a","b","l","e"," ","S","a","l","e"," ","#","1">>,
                        Dict(<< <<<<"B","d","r","m","s">>, Leaf(<<"4">>)>>,
                                <<<<"D","a","t","e"," ","o","f"," ","P","r","i","o","r"," ","S","a","l","e","/","T","r","a","n","s","f","e","r">>, Leaf(<<"2","0","2","0">>)>> >>)>> >>)>> >>)

HistoryDoc ==
    Dict(<< <<<<"S","A","L","E","S","_","H","I","S","T","O","R","Y">>,
              Dict(<< <<<<"S","u","b","j","e","c","t">>,
                        Dict(<< <<<<"D","a","t","e"," ","o","f"," ","P","r","i","o","r"," ","S","a","l","e","/","T","r","a","n","s","f","e","r">>, Leaf(<<"2","0","1","9">>)>> >>)>> >>)>>,
            <<<<"C","O","S","T","_","A","P","P","R","O","A","C","H">>, Dict(<< <<<<"P","o","o","l">>, Leaf(None)>> >>)>> >>)

RawTexts == { <<>>, <<"P","o","o","l",":"," ","Y","e","s">> }

ErrorDocs == {clean_json_output(t) : t \in RawTexts}

\* the "merged" value of the uploaded JSON: a document, the error-shaped object, or no dict
FillDocs == {SubjectDoc, HistoryDoc, Leaf(<<"Y","e","s">>)} \cup ErrorDocs

\* line 385: the results of a run, the sheet saved
Saved(file, fl, sm, cm, row, done) ==
    [flat |-> fl, secmap |-> sm, colmap |-> cm, new_row |-> row,
     ws |-> done.sheet, filled |-> done.filled, out_xlsx |-> save(done.sheet, file)]

\* lines 373-382: the target row and the fill loop
Filled(file, fl, sm, cm, read, row) ==
    Saved(file, fl, sm, cm, row, FillLoop([sheet |-> read, filled |-> 0], cm, row, fl, 1))

\* lines 366-371: colmap, built on the sheet detect_sections has read
Mapped(file, fl, sm, read) ==
    Filled(file, fl, sm, BuildColmap(read, sm, 1, <<>>), read, NewRow(read))

\* lines 363-364: flat and secmap
Detected(file, fl, loaded) ==
    Mapped(file, fl, detect_sections(loaded), TouchHeaders(loaded, 1, max_column(loaded)))

FillRun(file, doc) == Detected(file, flatten_json(doc), load_workbook(file))

Init ==
    /\ excel_file \in Templates
    /\ merged_json \in FillDocs
    /\ ws = NoSheet /\ flat = NoFlat /\ secmap = <<>> /\ colmap = <<>>
    /\ new_row = 0 /\ filled = 0 /\ out_xlsx = NoSheet /\ outcome = "none"
    /\ IdleCanon /\ IdlePick

\* line 387: the run's results, reported as a success
Succeed(r) ==
    /\ flat' = r.flat
    /\ secmap' = r.secmap
    /\ colmap' = r.colmap
    /\ new_row' = r.new_row
    /\ ws' = r.ws
    /\ filled' = r.filled
    /\ out_xlsx' = r.out_xlsx
    /\ outcome' = "success"

\* a click with both files uploaded; the workbook is the one of the last click or the
\* last download, uploaded again
FillExcel ==
    \E file \in {excel_file} \cup (IF outcome = "success" THEN {out_xlsx} ELSE {}) :
        /\ max_row(file) < MaxRow
        /\ excel_file' = file
        /\ IF FlattenRaises(merged_json)
           THEN /\ ws' = load_workbook(file)
                /\ outcome' = "exception"
                /\ UNCHANGED <<flat, secmap, colmap, new_row, filled, out_xlsx>>
           ELSE Succeed(FillRun(file, merged_json))
        /\ UNCHANGED <<merged_json, canonVars, pickVars>>

Next == FillExcel

Spec == Init /\ [][Next]_vars

-----------------------------------------------------------------------------
(* Properties of a fill run.  excel_file is the workbook the last click read,     *)
(* out_xlsx the workbook it saved.                                                *)

Columns == 1..max_column(excel_file)

Cells == DOMAIN excel_file \cup DOMAIN out_xlsx

\* a blank or placeholder cell value: None, "" or " "
BlankValue(v) == v \in {None, EMPTY, <<" ">>}

\* the last row of the workbook that holds a cell (ws.max_row of a sheet with cells)
LastRow(file) == IF DOMAIN file = {} THEN 0 ELSE SetMax({rc[1] : rc \in DOMAIN file})

TargetRow(file) == Max(LastRow(file) + 1, FIRST_DATA_ROW)

\* C1: a run writes only into the target row, max(last populated row + 1, 4), the last
\* populated row being the last row of the workbook that holds a cell: every cell of
\* every other row, and every cell that held a non-blank, non-placeholder value, keeps
\* its value.
C1_StrictlyAdditive ==
    outcome = "success" =>
        /\ new_row = TargetRow(excel_file)
        /\ \A rc \in Cells :
              (rc[1] # TargetRow(excel_file) \/ ~BlankValue(Value(excel_file, rc[1], rc[2])))
              => Value(out_xlsx, rc[1], rc[2]) = Value(excel_file, rc[1], rc[2])

\* a run that wrote cells below a data row holding a value
C1_Witness ==
    /\ outcome = "success"
    /\ filled > 0
    /\ Value(excel_file, FIRST_DATA_ROW, 1) = <<"o","l","d">>
    /\ new_row = FIRST_DATA_ROW + 1
    /\ \E c \in Columns : Truthy(Value(out_xlsx, new_row, c))

\* the cells a run wrote: those of the saved workbook that differ from the one read
Written == {rc \in Cells : Value(out_xlsx, rc[1], rc[2]) # Value(excel_file, rc[1], rc[2])}

\* the step is a second click, on the workbook a first run saved after writing cells
Rerun ==
    /\ outcome = "success" /\ filled > 0
    /\ excel_file' = out_xlsx /\ outcome' = "success"

\* C3 (as claimed): running the fill again with the same document on the workbook a
\* first run produced writes no cell and reports fill count 0.
C3_RerunNoOp == [][Rerun => (filled' = 0 /\ out_xlsx' = out_xlsx)]_vars

\* C3 (amended): running the fill again with the same document on the workbook a first
\* run produced leaves the row the first run wrote as it is and appends the same row
\* below it: the same values in the same columns of the next row, and the same fill
\* count.
C3_RerunAppends ==
    [][Rerun =>
        /\ filled' = filled
        /\ new_row' = new_row + 1
        /\ \A c \in 1..max_column(out_xlsx) :
              /\ Value(out_xlsx', new_row, c) = Value(out_xlsx, new_row, c)
              /\ Value(out_xlsx', new_row', c) = Value(out_xlsx, new_row, c)]_vars

\* after a second run: the row above the target row holds what the first run wrote
C3_Witness ==
    /\ outcome = "success"
    /\ filled > 0
    /\ new_row > FIRST_DATA_ROW
    /\ \E i \in 1..Len(colmap) :
          /\ Truthy(Value(excel_file, new_row - 1, colmap[i].col))
          /\ Value(excel_file, new_row - 1, colmap[i].col) # <<"o","l","d">>
          /\ Value(out_xlsx, new_row, colmap[i].col) = Value(excel_file, new_row - 1, colmap[i].col)

\* a section-row cell is blank: no value, or whitespace only
BlankLabel(v) == v = None \/ \A i \in 1..Len(v) : v[i] \in WS

Labelled(c) == {j \in 1..c : ~BlankLabel(Value(excel_file, ROW_SECTION, j))}

\* the canonical section of the nearest non-blank section-row cell at or left of c
Inherited(c) ==
    IF Labelled(c) = {} THEN EMPTY
    ELSE canonical_section(Value(excel_file, ROW_SECTION, SetMax(Labelled(c))))

Comp1Columns == {j \in Columns : Inherited(j) = <<"C","O","M","P","A","R","A","B","L","E"," ","S","A","L","E"," ","#","1">>}

ExpectedSection(c) ==
    IF Labelled(c) # {} THEN Inherited(c)
    ELSE IF Comp1Columns # {} /\ c < SetMin(Comp1Columns) THEN <<"S","U","B","J","E","C","T">>
    ELSE IF canonical_field(Value(excel_file, ROW_FIELDS, c)) \in SALES_HISTORY_COMP_FIELDS
         THEN <<"S","A","L","E","S","_","H","I","S","T","O","R","Y","_","S","U","B","J","E","C","T">>
    ELSE EMPTY

\* C6: detect_sections gives each column of 1..max_column the canonical section of the
\* nearest non-blank section-row cell at or left of it; with none, SUBJECT when the
\* column precedes the first COMPARABLE SALE #1 column, else SALES_HISTORY_SUBJECT when
\* its field is a sales-history field, else the empty section.
C6_DetectSections ==
    outcome = "success" =>
        /\ DOMAIN secmap = Columns
        /\ \A c \in Columns : secmap[c] = ExpectedSection(c)

\* an unlabelled leading column read as SUBJECT before the first comparable block
C6_Witness ==
    /\ outcome = "success"
    /\ max_column(excel_file) = 2
    /\ Labelled(1) = {}
    /\ secmap = << <<"S","U","B","J","E","C","T">>, <<"C","O","M","P","A","R","A","B","L","E"," ","S","A","L","E"," ","#","1">> >>

\* the (section, field) identity of a column
Identity(c) == <<secmap[c], canonical_field(Value(excel_file, ROW_FIELDS, c))>>

HasIdentity2(c) == Truthy(Identity(c)[1]) /\ Truthy(Identity(c)[2])

\* C7: of several columns with the same non-empty (section, field) identity only the
\* lowest-index one can be written; every later one is left unchanged in the new row,
\* and the fill count is at most the number of distinct identities.
C7_FirstColumnOnly ==
    outcome = "success" =>
        /\ \A c1, c2 \in Columns :
              (c1 < c2 /\ HasIdentity2(c1) /\ Identity(c1) = Identity(c2))
              => Value(out_xlsx, new_row, c2) = Value(excel_file, new_row, c2)
        /\ filled <= Cardinality({Identity(c) : c \in {x \in Columns : HasIdentity2(x)}})

\* two columns with one identity, the first written and the second left empty
C7_Witness ==
    /\ outcome = "success"
    /\ filled = 1
    /\ max_column(excel_file) = 2
    /\ HasIdentity2(1) /\ Identity(1) = Identity(2)
    /\ Truthy(Value(out_xlsx, new_row, 1))
    /\ Value(out_xlsx, new_row, 2) = None

\* C8: with the error-shaped document of clean_json_output the FlatIndex is empty and
\* the run completes as a success that writes no cell and reports fill count 0.
C8_ErrorDocFillsNothing ==
    (merged_json \in ErrorDocs /\ outcome # "none") =>
        /\ outcome = "success"
        /\ flat = NoFlat
        /\ filled = 0
        /\ out_xlsx = excel_file

\* an error-shaped document run against a workbook that has columns to fill
C8_Witness ==
    /\ merged_json \in ErrorDocs
    /\ outcome = "success"
    /\ Len(colmap) = 2
    /\ Written = {}

\* the ColumnMap the two header rows of a workbook yield
ColumnMapOf(file) == BuildColmap(file, detect_sections(file), 1, <<>>)

\* C9: a run on a workbook with no cells, or whose header rows yield no (section, field)
\* identity for any column, ends in a failure and not as a success with fill count 0.
C9_StructuralMismatchFails ==
    (outcome # "none" /\ ColumnMapOf(excel_file) = <<>>) => outcome = "exception"

=============================================================================
